---- MODULE Spec2Model ----
(***************************************************************************)
(* Model of Inventory_management_system.py: the product catalog            *)
(* (Inventory), one sale (Transaction, Billing.create_bill), the sales     *)
(* ledger (TransactionManager), the user store (User) and the menu         *)
(* handlers.  The three JSON documents are the state;                      *)
(* every method is one action.  Text that Python converts (str(Decimal),   *)
(* int(str), Decimal(str)) is a sequence of one-character strings, and the *)
(* conversions are computed digit by digit.                                *)
(***************************************************************************)
EXTENDS Integers, Sequences, FiniteSets, TLC

VARIABLES inventory, ledger, now, pc, transaction, hist, last,
          users, report, running, conc

vars == <<inventory, ledger, now, pc, transaction, hist, last,
          users, report, running, conc>>

(* ------------------------------ bounds -------------------------------- *)

MaxQty == 3
MaxItems == 2

(* --------------------------- text and numbers -------------------------- *)

DigitChars == <<"0", "1", "2", "3", "4", "5", "6", "7", "8", "9">>

IsDigit(c) == \E i \in 1..10 : DigitChars[i] = c

DigitVal(c) == (CHOOSE i \in 1..10 : DigitChars[i] = c) - 1

AllDigits(s) == \A i \in 1..Len(s) : IsDigit(s[i])

RECURSIVE Pow10(_)
Pow10(n) == IF n = 0 THEN 1 ELSE 10 * Pow10(n - 1)

RECURSIVE DigitsVal(_)
DigitsVal(s) == IF s = <<>> THEN 0
                ELSE 10 * DigitsVal(SubSeq(s, 1, Len(s) - 1)) + DigitVal(s[Len(s)])

RECURSIVE NatStr(_)
NatStr(n) == IF n < 10 THEN <<DigitChars[n + 1]>>
             ELSE NatStr(n \div 10) \o <<DigitChars[(n % 10) + 1]>>

Abs(n) == IF n < 0 THEN -n ELSE n

\* str(int)
IntStr(n) == IF n < 0 THEN <<"-">> \o NatStr(-n) ELSE NatStr(n)

HasSign(s) == s # <<>> /\ s[1] \in {"-", "+"}

Unsigned(s) == IF HasSign(s) THEN Tail(s) ELSE s

\* int(str): an optional sign and at least one digit, else ValueError
ParseInt(s) ==
    LET body == Unsigned(s)
    IN  IF body # <<>> /\ AllDigits(body)
        THEN [ok |-> TRUE,
              v |-> IF s[1] = "-" THEN -DigitsVal(body) ELSE DigitsVal(body)]
        ELSE [ok |-> FALSE, v |-> 0]

\* A finite Decimal: coef / 10^scale (scale = -exponent, never negative here)
Dec(c, s) == [coef |-> c, scale |-> s]

Max(a, b) == IF a > b THEN a ELSE b

Aligned(d, s) == d.coef * Pow10(s - d.scale)

DecAdd(a, b) ==
    LET s == Max(a.scale, b.scale) IN Dec(Aligned(a, s) + Aligned(b, s), s)

DecSub(a, b) ==
    LET s == Max(a.scale, b.scale) IN Dec(Aligned(a, s) - Aligned(b, s), s)

DecMul(a, b) == Dec(a.coef * b.coef, a.scale + b.scale)

DecLt(a, b) ==
    LET s == Max(a.scale, b.scale) IN Aligned(a, s) < Aligned(b, s)

\* Decimal.__eq__ compares values, not representations
DecEq(a, b) ==
    LET s == Max(a.scale, b.scale) IN Aligned(a, s) = Aligned(b, s)

DotPos(s) == IF \E i \in 1..Len(s) : s[i] = "."
             THEN CHOOSE i \in 1..Len(s) : s[i] = "." /\ \A j \in 1..(i - 1) : s[j] # "."
             ELSE 0

\* Decimal(str): sign, digits, at most one point, at least one digit;
\* anything else raises decimal.InvalidOperation
ParseDecimal(s) ==
    LET body == Unsigned(s)
        dot  == DotPos(body)
        ip   == IF dot = 0 THEN body ELSE SubSeq(body, 1, dot - 1)
        fp   == IF dot = 0 THEN <<>> ELSE SubSeq(body, dot + 1, Len(body))
        mag  == DigitsVal(ip \o fp)
    IN  IF AllDigits(ip) /\ AllDigits(fp) /\ Len(ip) + Len(fp) > 0
        THEN [ok |-> TRUE,
              v |-> Dec(IF s[1] = "-" THEN -mag ELSE mag, Len(fp))]
        ELSE [ok |-> FALSE, v |-> Dec(0, 0)]

Zeros(n) == [i \in 1..n |-> "0"]

\* str(Decimal) for exponent <= 0 (plain notation)
DecStr(d) ==
    LET digits == NatStr(Abs(d.coef))
        left   == Len(digits) - d.scale
        sign   == IF d.coef < 0 THEN <<"-">> ELSE <<>>
    IN  IF d.scale = 0 THEN sign \o digits
        ELSE IF left > 0
             THEN sign \o SubSeq(digits, 1, left) \o <<".">>
                       \o SubSeq(digits, left + 1, Len(digits))
             ELSE sign \o <<"0", ".">> \o Zeros(-left) \o digits

\* A JSON "quantity": a number, or the text typed into the update form
JInt(n) == [t |-> "int", i |-> n, s |-> <<>>]

JStr(s) == [t |-> "str", i |-> 0, s |-> s]

\* int(x) for a JSON value
PyInt(j) == IF j.t = "int" THEN [ok |-> TRUE, v |-> j.i] ELSE ParseInt(j.s)

(* ------------------------------- Product ------------------------------- *)

ProductIds == {"P1", "P2"}

Fields == {"name", "category", "price", "quantity", "expiry_date"}

Product(id, name, category, price, quantity, expiry) ==
    [product_id |-> id, name |-> name, category |-> category, price |-> price,
     quantity |-> quantity, expiry_date |-> expiry]

to_dict(p) ==
    [product_id |-> p.product_id, name |-> p.name, category |-> p.category,
     price |-> DecStr(p.price), quantity |-> JInt(p.quantity),
     expiry_date |-> p.expiry_date]

(* ------------------------------ Transaction ---------------------------- *)

TransactionItem(pid, q, unit, total) ==
    [product_id |-> pid, quantity |-> q, unit_price |-> unit, total_price |-> total]

NewTransaction(id, cashier, ts) ==
    [transaction_id |-> id, cashier |-> cashier, items |-> <<>>, timestamp |-> ts,
     total_amount |-> Dec(0, 2), payment_received |-> Dec(0, 2), change |-> Dec(0, 2)]

\* slip: the unit price is accumulated instead of the line total
add_item_unit(t, item) ==
    [t EXCEPT !.items = Append(@, item),
              !.total_amount = DecAdd(@, item.unit_price)]

add_item(t, item) ==
    [t EXCEPT !.items = Append(@, item),
              !.total_amount = DecAdd(@, item.total_price)]

\* slip: <= in place of <
PaymentRaisesOrEqual(t, amount) == ~DecLt(t.total_amount, amount)

PaymentRaises(t, amount) == DecLt(amount, t.total_amount)

\* slip: the change is taken the wrong way round
process_payment_swapped(t, amount) ==
    IF PaymentRaises(t, amount) THEN t
    ELSE [t EXCEPT !.payment_received = amount,
                   !.change = DecSub(t.total_amount, amount)]

process_payment(t, amount) ==
    IF PaymentRaises(t, amount) THEN t
    ELSE [t EXCEPT !.payment_received = amount,
                   !.change = DecSub(amount, t.total_amount)]

\* Seconds in a day of the model's clock (86400 on the wall clock)
DayLen == 2

\* datetime.isoformat(): the date, "T", the time of day
isoformat(ts) == NatStr(ts \div DayLen) \o <<"T">> \o NatStr(ts % DayLen)

TPos(s) == CHOOSE i \in 1..Len(s) : s[i] = "T" /\ \A j \in 1..(i - 1) : s[j] # "T"

\* datetime.fromisoformat(text).date()
IsoDate(s) == DigitsVal(SubSeq(s, 1, TPos(s) - 1))

\* f"TXN{datetime.now().strftime('%Y%m%d%H%M%S')}": the clock read to the second
TxnId(ts) == <<"T", "X", "N">> \o NatStr(ts \div DayLen) \o NatStr(ts % DayLen)

ItemDict(item) ==
    [product_id |-> item.product_id, quantity |-> item.quantity,
     unit_price |-> DecStr(item.unit_price), total_price |-> DecStr(item.total_price)]

TransactionDict(t) ==
    [transaction_id |-> t.transaction_id, cashier |-> t.cashier,
     timestamp |-> isoformat(t.timestamp),
     items |-> [i \in 1..Len(t.items) |-> ItemDict(t.items[i])],
     total_amount |-> DecStr(t.total_amount),
     payment_received |-> DecStr(t.payment_received),
     change |-> DecStr(t.change)]

(* ------------------------------- state --------------------------------- *)

NoTransaction == NewTransaction(<<>>, "", 0)

\* History kept for the properties: the items handed to add_item, whether a
\* payment was accepted, and the catalog as it was when the sale began
NoHist == [added |-> <<>>, paid |-> FALSE, start |-> <<>>]

Done(op, ret, msg) == [op |-> op, ret |-> ret, msg |-> msg]

\* no report has been asked for yet
NoReport ==
    [date |-> <<>>, total_sales |-> <<>>, total_transactions |-> 0,
     total_items_sold |-> 0, transactions |-> <<>>]

Init ==
    /\ inventory = <<>>
    /\ ledger = <<>>
    /\ now = 0
    /\ pc = "idle"
    /\ transaction = NoTransaction
    /\ hist = NoHist
    /\ last = Done("init", "", "")
    /\ users = <<>>
    /\ report = NoReport
    /\ running = TRUE
    /\ conc = <<>>

(* ------------------------------ Inventory ------------------------------ *)

Has(doc, k) == k \in DOMAIN doc

Put(doc, k, v) == [x \in DOMAIN doc \cup {k} |-> IF x = k THEN v ELSE doc[x]]

Remove(doc, k) == [x \in DOMAIN doc \ {k} |-> doc[x]]

\* slip: no duplicate test, the stored record is overwritten
add_product_overwrite(p) ==
    /\ pc = "idle"
    /\ inventory' = Put(inventory, p.product_id, to_dict(p))
    /\ last' = Done("add_product", "True", "")
    /\ UNCHANGED <<users, report, running, conc, ledger, now, pc, transaction, hist>>

add_product(p) ==
    /\ pc = "idle"
    /\ IF Has(inventory, p.product_id)
       THEN /\ inventory' = inventory
            /\ last' = Done("add_product", "False", "already exists")
       ELSE /\ inventory' = Put(inventory, p.product_id, to_dict(p))
            /\ last' = Done("add_product", "True", "")
    /\ UNCHANGED <<users, report, running, conc, ledger, now, pc, transaction, hist>>

\* slip: the record is rebuilt from the form, blank fields included
MergedAll(rec, updates) ==
    [f \in DOMAIN rec |-> IF f \in DOMAIN updates.val THEN updates.val[f] ELSE rec[f]]

\* updates: keys is the set of keyword names, val their values
Merged(rec, updates) ==
    [f \in DOMAIN rec |-> IF f \in updates.keys THEN updates.val[f] ELSE rec[f]]

update_prodcut(pid, updates) ==
    /\ pc = "idle"
    /\ IF ~Has(inventory, pid)
       THEN /\ inventory' = inventory
            /\ last' = Done("update_prodcut", "False", "not found")
       ELSE /\ inventory' = [inventory EXCEPT ![pid] = Merged(@, updates)]
            /\ last' = Done("update_prodcut", "True", "")
    /\ UNCHANGED <<users, report, running, conc, ledger, now, pc, transaction, hist>>

delete_product(pid) ==
    /\ pc = "idle"
    /\ IF ~Has(inventory, pid)
       THEN /\ inventory' = inventory
            /\ last' = Done("delete_product", "False", "not found")
       ELSE /\ inventory' = Remove(inventory, pid)
            /\ last' = Done("delete_product", "True", "")
    /\ UNCHANGED <<users, report, running, conc, ledger, now, pc, transaction, hist>>

\* slip: the test of lines 663-665 is missing
AdjustResultNoFloor(inv, pid, quantity_change) ==
    IF ~Has(inv, pid) THEN [inv |-> inv, ret |-> "False", msg |-> "not found"]
    ELSE LET cur == PyInt(inv[pid].quantity)
         IN  IF ~cur.ok THEN [inv |-> inv, ret |-> "raise", msg |-> "ValueError"]
             ELSE [inv |-> [inv EXCEPT ![pid].quantity = JInt(cur.v + quantity_change)],
                   ret |-> "True", msg |-> ""]

\* slip: the change is stored in place of the new quantity
AdjustResultSet(inv, pid, quantity_change) ==
    IF ~Has(inv, pid) THEN [inv |-> inv, ret |-> "False", msg |-> "not found"]
    ELSE LET cur == PyInt(inv[pid].quantity)
             new_quantity == cur.v + quantity_change
         IN  IF ~cur.ok THEN [inv |-> inv, ret |-> "raise", msg |-> "ValueError"]
             ELSE IF new_quantity < 0
                  THEN [inv |-> inv, ret |-> "False", msg |-> "below 0"]
             ELSE [inv |-> [inv EXCEPT ![pid].quantity = JInt(quantity_change)],
                   ret |-> "True", msg |-> ""]

\* The catalog document after Inventory.adjust_stock, and what it returns
AdjustResult(inv, pid, quantity_change) ==
    IF ~Has(inv, pid) THEN [inv |-> inv, ret |-> "False", msg |-> "not found"]
    ELSE LET cur == PyInt(inv[pid].quantity)
             new_quantity == cur.v + quantity_change
         IN  IF ~cur.ok THEN [inv |-> inv, ret |-> "raise", msg |-> "ValueError"]
             ELSE IF new_quantity < 0
                  THEN [inv |-> inv, ret |-> "False", msg |-> "below 0"]
             ELSE [inv |-> [inv EXCEPT ![pid].quantity = JInt(new_quantity)],
                   ret |-> "True", msg |-> ""]

StockOf(inv, pid) == PyInt(inv[pid].quantity).v

adjust_stock(pid, quantity_change) ==
    /\ pc = "idle"
    /\ Has(inventory, pid) /\ PyInt(inventory[pid].quantity).ok
          => StockOf(inventory, pid) + quantity_change <= MaxQty
    /\ LET r == AdjustResult(inventory, pid, quantity_change)
       IN  /\ inventory' = r.inv
           /\ last' = Done("adjust_stock", r.ret, r.msg)
    /\ UNCHANGED <<users, report, running, conc, ledger, now, pc, transaction, hist>>

(* ------------------------- TransactionManager -------------------------- *)

\* slip: a record already stored under the id is kept (dict.setdefault)
save_transaction_keep(led, t) ==
    IF Has(led, t.transaction_id) THEN led
    ELSE Put(led, t.transaction_id, TransactionDict(t))

save_transaction(led, t) == Put(led, t.transaction_id, TransactionDict(t))

\* Lines 242-245: the stored transactions whose timestamp falls on the date
DailyIds(led, date) == {k \in DOMAIN led : IsoDate(led[k].timestamp) = date}

\* Line 247: sum() starts from the int 0 and adds each Decimal(total_amount)
RECURSIVE SumSales(_, _)
SumSales(led, ids) ==
    IF ids = {} THEN Dec(0, 0)
    ELSE LET k == CHOOSE x \in ids : TRUE
         IN  DecAdd(SumSales(led, ids \ {k}), ParseDecimal(led[k].total_amount).v)

RECURSIVE SumQuantity(_)
SumQuantity(items) ==
    IF items = <<>> THEN 0 ELSE items[1].quantity + SumQuantity(Tail(items))

\* Lines 248-251
RECURSIVE SumItems(_, _)
SumItems(led, ids) ==
    IF ids = {} THEN 0
    ELSE LET k == CHOOSE x \in ids : TRUE
         IN  SumQuantity(led[k].items) + SumItems(led, ids \ {k})

\* Lines 253-259; str(0) and str(Decimal) of the sum
DailyReport(led, date) ==
    LET ids == DailyIds(led, date)
    IN  [date |-> NatStr(date),
         total_sales |-> DecStr(SumSales(led, ids)),
         total_transactions |-> Cardinality(ids),
         total_items_sold |-> SumItems(led, ids),
         transactions |-> [k \in ids |-> led[k]]]

get_daily_sales_report(date) ==
    /\ pc = "idle"
    /\ report' = DailyReport(ledger, date)
    /\ last' = Done("get_daily_sales_report", "dict", "")
    /\ UNCHANGED <<inventory, ledger, now, pc, transaction, hist, users, running, conc>>

(* --------------------------- Billing.create_bill ----------------------- *)

Cashier == "sam"

\* Lines 496-498: the id is the clock read to the second
create_bill_start ==
    /\ pc = "idle"
    /\ pc' = "items"
    /\ transaction' = NewTransaction(TxnId(now), Cashier, now)
    /\ last' = Done("create_bill", "", "started")
    /\ hist' = [NoHist EXCEPT !.start = inventory]
    /\ UNCHANGED <<users, report, running, conc, inventory, ledger, now>>

\* slip: the stock test of lines 519-521 is missing
LineResultNoStockTest(inv, t, product_id, qtext) ==
    LET quantity == ParseInt(qtext)
        same(msg) == [inv |-> inv, txn |-> t, pc |-> "items", ret |-> "", msg |-> msg]
    IN  IF ~quantity.ok THEN same("Invalid input")
        ELSE IF quantity.v <= 0 THEN same("Quantity must be positive")
        ELSE IF ~Has(inv, product_id) THEN same("Product not found")
        ELSE LET product == inv[product_id]
                 stock == PyInt(product.quantity)
                 unit_price == ParseDecimal(product.price)
                 total_price == DecMul(unit_price.v, ParseDecimal(IntStr(quantity.v)).v)
                 item == TransactionItem(product_id, quantity.v, unit_price.v, total_price)
             IN  IF ~stock.ok THEN same("Invalid input")
                 ELSE IF ~unit_price.ok
                      THEN [inv |-> inv, txn |-> NoTransaction, pc |-> "idle",
                            ret |-> "raise", msg |-> "InvalidOperation"]
                 ELSE [inv |-> AdjustResult(inv, product_id, -quantity.v).inv,
                       txn |-> add_item(t, item), pc |-> "items",
                       ret |-> "", msg |-> "Added"]

\* One pass of the loop of lines 500-539 for the typed product id and quantity
LineResult(inv, t, product_id, qtext) ==
    LET quantity == ParseInt(qtext)
        same(msg) == [inv |-> inv, txn |-> t, pc |-> "items", ret |-> "", msg |-> msg]
    IN  IF ~quantity.ok THEN same("Invalid input")
        ELSE IF quantity.v <= 0 THEN same("Quantity must be positive")
        ELSE IF ~Has(inv, product_id) THEN same("Product not found")
        ELSE LET product == inv[product_id]
                 stock == PyInt(product.quantity)
                 unit_price == ParseDecimal(product.price)
                 total_price == DecMul(unit_price.v, ParseDecimal(IntStr(quantity.v)).v)
                 item == TransactionItem(product_id, quantity.v, unit_price.v, total_price)
             IN  IF ~stock.ok THEN same("Invalid input")
                 ELSE IF stock.v < quantity.v THEN same("Insufficient stock")
                 ELSE IF ~unit_price.ok
                      THEN [inv |-> inv, txn |-> NoTransaction, pc |-> "idle",
                            ret |-> "raise", msg |-> "InvalidOperation"]
                 ELSE [inv |-> AdjustResult(inv, product_id, -quantity.v).inv,
                       txn |-> add_item(t, item), pc |-> "items",
                       ret |-> "", msg |-> "Added"]

create_bill_line(product_id, qtext) ==
    /\ pc = "items"
    /\ Len(transaction.items) < MaxItems
    /\ LET r == LineResult(inventory, transaction, product_id, qtext)
       IN  /\ inventory' = r.inv
           /\ transaction' = r.txn
           /\ pc' = r.pc
           /\ last' = Done("create_bill", r.ret, r.msg)
           /\ hist' = IF r.pc = "idle" THEN NoHist ELSE hist
    /\ UNCHANGED <<users, report, running, conc, ledger, now>>

\* slip: the empty bill is recorded before returning
DoneResultSaves(led, t) ==
    IF t.items = <<>>
    THEN [led |-> save_transaction(led, t), txn |-> NoTransaction, pc |-> "idle",
          ret |-> "None", msg |-> "No items in bill"]
    ELSE [led |-> led, txn |-> t, pc |-> "payment", ret |-> "", msg |-> "done"]

\* 'done' typed: lines 502-503 and 541-543
DoneResult(led, t) ==
    IF t.items = <<>>
    THEN [led |-> led, txn |-> NoTransaction, pc |-> "idle", ret |-> "None",
          msg |-> "No items in bill"]
    ELSE [led |-> led, txn |-> t, pc |-> "payment", ret |-> "", msg |-> "done"]

create_bill_done ==
    /\ pc = "items"
    /\ LET r == DoneResult(ledger, transaction)
       IN  /\ ledger' = r.led
           /\ transaction' = r.txn
           /\ pc' = r.pc
           /\ last' = Done("create_bill", r.ret, r.msg)
           /\ hist' = IF r.pc = "idle" THEN NoHist ELSE hist
    /\ UNCHANGED <<users, report, running, conc, inventory, now>>

\* One pass of the payment loop of lines 546-555, then lines 557-563
PaymentResult(led, t, ptext) ==
    LET payment == ParseDecimal(ptext)
        again(msg) == [led |-> led, txn |-> t, pc |-> "payment", ret |-> "", msg |-> msg]
    IN  IF ~payment.ok
        THEN [led |-> led, txn |-> NoTransaction, pc |-> "idle",
              ret |-> "raise", msg |-> "InvalidOperation"]
        ELSE IF DecLt(payment.v, t.total_amount) THEN again("Insufficient payment")
        ELSE IF PaymentRaises(t, payment.v) THEN again("Invalid payment amount")
        ELSE [led |-> save_transaction(led, process_payment(t, payment.v)),
              txn |-> NoTransaction, pc |-> "idle",
              ret |-> "Transaction", msg |-> "Receipt"]

create_bill_payment(ptext) ==
    /\ pc = "payment"
    /\ LET r == PaymentResult(ledger, transaction, ptext)
       IN  /\ ledger' = r.led
           /\ transaction' = r.txn
           /\ pc' = r.pc
           /\ last' = Done("create_bill", r.ret, r.msg)
           /\ hist' = IF r.pc = "idle" THEN NoHist ELSE hist
    /\ UNCHANGED <<users, report, running, conc, inventory, now>>

(* ------------------------------- inputs -------------------------------- *)

\* Product objects handed to add_product: P1 costs 1.50 and P2 costs 0.5
PriceOf(id) == IF id = "P1" THEN Dec(150, 2) ELSE Dec(5, 1)

NewProducts ==
    {Product(id, "Milk", "Food", PriceOf(id), q, "2025-01-01") :
        id \in ProductIds, q \in {-1, 2}}

\* What the update form sends: the text typed for each field that was filled
UpdateOf(keys, price, quantity) ==
    [keys |-> keys,
     val |-> [name |-> "Tea", category |-> "Drink", price |-> price,
              quantity |-> JStr(quantity), expiry_date |-> "2026-06-30"]]

StockUpdates ==
    {UpdateOf({"quantity"}, <<"x">>, <<"1">>),
     UpdateOf({"quantity"}, <<"x">>, <<"x">>),
     UpdateOf({"price"}, <<"x">>, <<"x">>)}

Deltas == {-2, -1, 1}

LineTexts == {<<"0">>, <<"1">>, <<"2">>, <<"x">>}

PaymentTexts == {<<"1">>, <<"3">>, <<"x">>}

\* Which fields of the form are filled: none, one, several, all
KeySets ==
    {{}, {"name"}, {"price"}, {"quantity"}, {"category", "expiry_date"},
     {"name", "quantity"}, Fields}

AllUpdates == {UpdateOf(keys, <<"2">>, <<"1">>) : keys \in KeySets}

ApiItems ==
    {TransactionItem("P1", q, u, DecMul(u, Dec(q, 0))) :
        q \in {1, 2}, u \in {Dec(150, 2), Dec(5, 1)}}

Amounts == {Dec(0, 0), Dec(1, 0), Dec(300, 2), Dec(5, 0)}

(* ------------------- Transaction used on its own ----------------------- *)

txn_add_item(item) ==
    /\ Len(transaction.items) < MaxItems
    /\ transaction' = add_item(transaction, item)
    /\ hist' = [hist EXCEPT !.added = Append(@, item)]
    /\ last' = Done("add_item", "None", "")
    /\ UNCHANGED <<users, report, running, conc, inventory, ledger, now, pc>>

txn_process_payment(amount_received) ==
    /\ transaction' = process_payment(transaction, amount_received)
    /\ IF PaymentRaises(transaction, amount_received)
       THEN /\ hist' = hist
            /\ last' = Done("process_payment", "raise", "ValueError")
       ELSE /\ hist' = [hist EXCEPT !.paid = TRUE]
            /\ last' = Done("process_payment", "None", "")
    /\ UNCHANGED <<users, report, running, conc, inventory, ledger, now, pc>>

(* --------------------------------- User -------------------------------- *)

\* str.lower() on the letters that occur in the user names below
LowerChar(c) ==
    CASE c = "A" -> "a" [] c = "D" -> "d" [] c = "M" -> "m"
      [] c = "I" -> "i" [] c = "N" -> "n" [] OTHER -> c

Lower(s) == [i \in 1..Len(s) |-> LowerChar(s[i])]

AdminName == <<"a", "d", "m", "i", "n">>

UserRecord(password, role) == [password |-> password, role |-> role]

\* slip: the first login creates an Admin whatever the name
AuthResultAnyFirst(ud, username, password) ==
    IF ud = <<>>
    THEN [users |-> Put(ud, username, UserRecord(password, "Admin")),
          ret |-> "True", msg |-> "created as an Admin"]
    ELSE IF Has(ud, username) /\ ud[username].password = password
    THEN [users |-> ud, ret |-> "True", msg |-> "Welcome back"]
    ELSE [users |-> ud, ret |-> "False", msg |-> "Authentication failed"]

\* slip: the admin is created whenever it is missing, not only in an empty store
AuthResultCreatesMissing(ud, username, password) ==
    IF ~Has(ud, username) /\ username = AdminName
    THEN [users |-> Put(ud, username, UserRecord(password, "Admin")),
          ret |-> "True", msg |-> "created as an Admin"]
    ELSE IF Has(ud, username) /\ ud[username].password = password
    THEN [users |-> ud, ret |-> "True", msg |-> "Welcome back"]
    ELSE [users |-> ud, ret |-> "False", msg |-> "Authentication failed"]

\* User.authenticate: the user document afterwards and the return value
AuthResult(ud, username, password) ==
    IF ud = <<>> /\ username = AdminName
    THEN [users |-> Put(ud, username, UserRecord(password, "Admin")),
          ret |-> "True", msg |-> "created as an Admin"]
    ELSE IF Has(ud, username) /\ ud[username].password = password
    THEN [users |-> ud, ret |-> "True", msg |-> "Welcome back"]
    ELSE [users |-> ud, ret |-> "False", msg |-> "Authentication failed"]

authenticate(username, password) ==
    /\ LET r == AuthResult(users, username, password)
       IN  /\ users' = r.users
           /\ last' = Done("authenticate", r.ret, r.msg)
    /\ UNCHANGED <<inventory, ledger, now, pc, transaction, hist, report, running, conc>>

\* slip: the reserved name is compared without lower()
RegisterResultNoLower(ud, username, password) ==
    IF username = AdminName
    THEN [users |-> ud, ret |-> "False", msg |-> "Admin user already exists"]
    ELSE IF Has(ud, username)
    THEN [users |-> ud, ret |-> "False", msg |-> "Username already exists"]
    ELSE [users |-> Put(ud, username, UserRecord(password, "salesman")),
          ret |-> "True", msg |-> "created as a Salesman"]

\* User.register: the user document afterwards and the return value
RegisterResult(ud, username, password) ==
    IF Lower(username) = AdminName
    THEN [users |-> ud, ret |-> "False", msg |-> "Admin user already exists"]
    ELSE IF Has(ud, username)
    THEN [users |-> ud, ret |-> "False", msg |-> "Username already exists"]
    ELSE [users |-> Put(ud, username, UserRecord(password, "salesman")),
          ret |-> "True", msg |-> "created as a Salesman"]

register(username, password) ==
    /\ LET r == RegisterResult(users, username, password)
       IN  /\ users' = r.users
           /\ last' = Done("register", r.ret, r.msg)
    /\ UNCHANGED <<inventory, ledger, now, pc, transaction, hist, report, running, conc>>

Usernames ==
    {AdminName, <<"A", "d", "m", "i", "n">>, <<"b", "o", "b">>, <<"a", "m", "y">>}

Passwords == {"pw1", "pw2"}

(* ----------------- TransactionManager used on its own ------------------ *)

MaxTime == 3

\* The wall clock passes to the next second
Tick ==
    /\ now < MaxTime
    /\ now' = now + 1
    /\ UNCHANGED <<inventory, ledger, pc, transaction, hist, last, users, report,
                   running, conc>>

Baskets ==
    {<<TransactionItem("P1", 1, Dec(150, 2), Dec(150, 2))>>,
     <<TransactionItem("P2", 2, Dec(5, 1), Dec(10, 1))>>,
     <<TransactionItem("P1", 1, Dec(150, 2), Dec(150, 2)),
       TransactionItem("P2", 1, Dec(5, 1), Dec(5, 1))>>}

RECURSIVE AddAll(_, _)
AddAll(t, items) ==
    IF items = <<>> THEN t ELSE AddAll(add_item(t, items[1]), Tail(items))

\* A sale as create_bill hands it to save_transaction: lines 497, 527-528, 551
SettledSale(ts, items) ==
    LET t == AddAll(NewTransaction(TxnId(ts), Cashier, ts), items)
    IN  process_payment(t, t.total_amount)

ledger_save(t) ==
    /\ pc = "idle"
    /\ ledger' = save_transaction(ledger, t)
    /\ last' = Done("save_transaction", "None",
                    IF Has(ledger, t.transaction_id) THEN "replaced" ELSE "stored")
    /\ UNCHANGED <<inventory, now, pc, transaction, hist, users, report, running, conc>>

Dates == 0..(MaxTime \div DayLen)

(* --------------------- InventoryManagementSystem ----------------------- *)

\* An exception that no handler catches leaves run(): the process ends, and
\* a sale in progress is lost with it
Crash(op, msg) ==
    /\ running' = FALSE
    /\ pc' = "idle"
    /\ transaction' = NoTransaction
    /\ last' = Done(op, "raise", msg)
    /\ hist' = NoHist
    /\ UNCHANGED <<inventory, ledger, now, users, report, conc>>

\* Lines 883-895: float() and int() of the typed texts are not guarded
_add_product(product_id, ptext, qtext) ==
    /\ running /\ pc = "idle"
    /\ LET price == ParseDecimal(ptext)
           quantity == ParseInt(qtext)
       IN  IF ~price.ok \/ ~quantity.ok THEN Crash("_add_product", "ValueError")
           ELSE add_product(Product(product_id, "Milk", "Food", price.v, quantity.v,
                                    "2025-01-01"))

\* Lines 920-926: int() of the typed text is not guarded
_adjust_stock(product_id, dtext) ==
    /\ running /\ pc = "idle"
    /\ LET quantity_change == ParseInt(dtext)
       IN  IF ~quantity_change.ok THEN Crash("_adjust_stock", "ValueError")
           ELSE IF AdjustResult(inventory, product_id, quantity_change.v).ret = "raise"
                THEN Crash("_adjust_stock", "ValueError")
           ELSE adjust_stock(product_id, quantity_change.v)

\* Lines 976-989 with 496-498
_create_bill_start == running /\ create_bill_start

_create_bill_line(product_id, qtext) ==
    /\ running /\ pc = "items"
    /\ IF LineResult(inventory, transaction, product_id, qtext).ret = "raise"
       THEN Crash("create_bill", "InvalidOperation")
       ELSE create_bill_line(product_id, qtext)

_create_bill_done == running /\ create_bill_done

_create_bill_payment(ptext) ==
    /\ running /\ pc = "payment"
    /\ IF PaymentResult(ledger, transaction, ptext).ret = "raise"
       THEN Crash("create_bill", "InvalidOperation")
       ELSE create_bill_payment(ptext)

\* Lines 991-1014: strptime raises ValueError, which is caught
_view_daily_sales_report(date_str) ==
    /\ running /\ pc = "idle"
    /\ IF date_str = <<>> THEN get_daily_sales_report(now \div DayLen)
       ELSE IF AllDigits(date_str) THEN get_daily_sales_report(DigitsVal(date_str))
       ELSE /\ last' = Done("_view_daily_sales_report", "", "Invalid date format")
            /\ UNCHANGED <<inventory, ledger, now, pc, transaction, hist, users,
                           report, running, conc>>

\* Lines 791-793: choice "3" of the top-level loop
run_exit ==
    /\ running /\ pc = "idle"
    /\ running' = FALSE
    /\ last' = Done("run", "", "Goodbye!")
    /\ UNCHANGED <<inventory, ledger, now, pc, transaction, hist, users, report, conc>>

PriceTexts == {<<"1", ".", "5">>, <<"x">>}

QuantityTexts == {<<"2">>, <<"x">>}

DeltaTexts == {<<"1">>, <<"-", "1">>, <<"x">>}

DateTexts == {<<>>, <<"0">>, <<"x">>}

(* ------------- two adjust_stock executions on one catalog -------------- *)

Procs == {1, 2}

\* An execution before its load_data
Idle == [pc |-> "start", quantity_change |-> 0, inventory |-> <<>>, ret |-> ""]

\* The catalog holds P1 with some stock; neither execution has started.
\* conc.initial remembers the stock, conc.overlap whether one execution
\* loaded between the load and the save of the other.
ConcInit ==
    /\ \E q \in 0..MaxQty :
          /\ inventory = Put(<<>>, "P1",
                             to_dict(Product("P1", "Milk", "Food", PriceOf("P1"), q,
                                             "2025-01-01")))
          /\ conc = [initial |-> q, overlap |-> FALSE, proc |-> [i \in Procs |-> Idle]]
    /\ ledger = <<>>
    /\ now = 0
    /\ pc = "idle"
    /\ transaction = NoTransaction
    /\ hist = NoHist
    /\ last = Done("init", "", "")
    /\ users = <<>>
    /\ report = NoReport
    /\ running = TRUE

\* Line 655: the execution reads the whole document
conc_load(i, quantity_change) ==
    /\ conc.proc[i].pc = "start"
    /\ conc' = [conc EXCEPT
                   !.proc[i] = [pc |-> "loaded", quantity_change |-> quantity_change,
                                inventory |-> inventory, ret |-> ""],
                   !.overlap = @ \/ \E j \in Procs \ {i} : conc.proc[j].pc = "loaded"]
    /\ UNCHANGED <<inventory, ledger, now, pc, transaction, hist, last, users, report,
                   running>>

\* Lines 657-673 on the copy that was read; save_data writes the whole document
conc_save(i) ==
    /\ conc.proc[i].pc = "loaded"
    /\ LET r == AdjustResult(conc.proc[i].inventory, "P1", conc.proc[i].quantity_change)
       IN  /\ inventory' = IF r.ret = "True" THEN r.inv ELSE inventory
           /\ conc' = [conc EXCEPT !.proc[i].pc = "done", !.proc[i].ret = r.ret]
           /\ last' = Done("adjust_stock", r.ret, r.msg)
    /\ UNCHANGED <<ledger, now, pc, transaction, hist, users, report, running>>

(* --------------------------- specifications ---------------------------- *)

Next ==
    \/ \E p \in NewProducts : add_product(p)
    \/ \E pid \in ProductIds, u \in StockUpdates : update_prodcut(pid, u)
    \/ \E pid \in ProductIds : delete_product(pid)
    \/ \E pid \in ProductIds, d \in Deltas : adjust_stock(pid, d)
    \/ create_bill_start
    \/ \E pid \in ProductIds, q \in LineTexts : create_bill_line(pid, q)
    \/ create_bill_done
    \/ \E p \in PaymentTexts : create_bill_payment(p)

Spec == Init /\ [][Next]_vars

CatalogNext ==
    \/ \E p \in NewProducts : add_product(p)
    \/ \E pid \in ProductIds, u \in AllUpdates : update_prodcut(pid, u)
    \/ \E pid \in ProductIds : delete_product(pid)
    \/ \E pid \in ProductIds, d \in Deltas : adjust_stock(pid, d)

CatalogSpec == Init /\ [][CatalogNext]_vars

TxnNext ==
    \/ \E item \in ApiItems : txn_add_item(item)
    \/ \E a \in Amounts : txn_process_payment(a)

TxnSpec == Init /\ [][TxnNext]_vars

UserNext ==
    \/ \E u \in Usernames, pw \in Passwords : authenticate(u, pw)
    \/ \E u \in Usernames, pw \in Passwords : register(u, pw)

UserSpec == Init /\ [][UserNext]_vars

LedgerNext ==
    \/ Tick
    \/ \E items \in Baskets : ledger_save(SettledSale(now, items))
    \/ \E date \in Dates : get_daily_sales_report(date)

LedgerSpec == Init /\ [][LedgerNext]_vars

CliNext ==
    \/ \E pid \in ProductIds, p \in PriceTexts, q \in QuantityTexts :
          _add_product(pid, p, q)
    \/ \E pid \in ProductIds, d \in DeltaTexts : _adjust_stock(pid, d)
    \/ _create_bill_start
    \/ \E pid \in ProductIds, q \in LineTexts : _create_bill_line(pid, q)
    \/ _create_bill_done
    \/ \E p \in PaymentTexts : _create_bill_payment(p)
    \/ \E d \in DateTexts : _view_daily_sales_report(d)
    \/ run_exit

CliSpec == Init /\ [][CliNext]_vars

ConcNext ==
    \/ \E i \in Procs, d \in Deltas : conc_load(i, d)
    \/ \E i \in Procs : conc_save(i)

ConcSpec == ConcInit /\ [][ConcNext]_vars

(* ------------------------------ properties ----------------------------- *)

RECURSIVE SumDec(_)
SumDec(ds) == IF ds = <<>> THEN Dec(0, 0)
              ELSE DecAdd(SumDec(SubSeq(ds, 1, Len(ds) - 1)), ds[Len(ds)])

\* a stored quantity that reads as an integer >= 0
NonNegative(j) == PyInt(j).ok /\ PyInt(j).v >= 0

OthersKept(pid) ==
    \A o \in DOMAIN inventory \ {pid} : Has(inventory', o) /\ inventory'[o] = inventory[o]

\* C1: adjust_stock on an existing product whose quantity is >= 0 leaves the
\* quantity >= 0; when quantity + delta < 0 it returns False and the catalog
\* is unchanged, otherwise it returns True and stores exactly quantity + delta.
C1_AdjustStockNeverNegative ==
    [][\A pid \in ProductIds, d \in Deltas :
         (last'.op = "adjust_stock" /\ adjust_stock(pid, d)
            /\ Has(inventory, pid) /\ NonNegative(inventory[pid].quantity))
         => LET cur == PyInt(inventory[pid].quantity).v
            IN  /\ Has(inventory', pid) /\ NonNegative(inventory'[pid].quantity)
                /\ IF cur + d < 0
                   THEN last'.ret = "False" /\ inventory' = inventory
                   ELSE /\ last'.ret = "True"
                        /\ inventory'[pid].quantity = JInt(cur + d)]_vars

C1_Witness_Rejected ==
    /\ last.op = "adjust_stock" /\ last.msg = "below 0"
    /\ \E pid \in DOMAIN inventory : inventory[pid].quantity = JInt(1)
    /\ \A pid \in DOMAIN inventory : NonNegative(inventory[pid].quantity)

\* C2: every stored product has an integer quantity >= 0, and only
\* adjust_stock (called directly or by create_bill) changes the quantity of a
\* product that already exists.
C2_QuantityOnlyByAdjustStock ==
    /\ [](\A pid \in DOMAIN inventory :
            inventory[pid].quantity.t = "int" /\ inventory[pid].quantity.i >= 0)
    /\ [][\A pid \in DOMAIN inventory :
            (Has(inventory', pid) /\ inventory'[pid].quantity # inventory[pid].quantity)
            => last'.op \in {"adjust_stock", "create_bill"}]_vars

\* C3: once process_payment has succeeded, a further process_payment is
\* rejected and no later add_item or process_payment changes the transaction.
C3_SettledIsImmutable ==
    [][hist.paid =>
         /\ transaction' = transaction
         /\ last'.op = "process_payment" => last'.ret = "raise"]_vars

\* C4: process_payment on an open transaction raises and changes nothing when
\* amount < total_amount; otherwise payment_received = amount and
\* change = amount - total_amount >= 0, items and total_amount unchanged.
C4_ProcessPayment ==
    [][\A a \in Amounts :
         (~hist.paid /\ last'.op = "process_payment" /\ txn_process_payment(a))
         => IF DecLt(a, transaction.total_amount)
            THEN last'.ret = "raise" /\ transaction' = transaction
            ELSE /\ last'.ret = "None"
                 /\ transaction'.payment_received = a
                 /\ DecEq(transaction'.change, DecSub(a, transaction.total_amount))
                 /\ ~DecLt(transaction'.change, Dec(0, 0))
                 /\ transaction'.items = transaction.items
                 /\ transaction'.total_amount = transaction.total_amount]_vars

C4_Witness_ExactPayment ==
    /\ last.op = "process_payment" /\ last.ret = "None"
    /\ Len(transaction.items) = 2
    /\ transaction.payment_received = Dec(300, 2)
    /\ transaction.change = Dec(0, 2)

\* C5: after any add_item calls on a fresh transaction, items is the sequence
\* of added items in call order and total_amount is the exact sum of their
\* total_price.
C5_TotalIsSumOfItems ==
    /\ transaction.items = hist.added
    /\ DecEq(transaction.total_amount,
             SumDec([i \in 1..Len(transaction.items) |-> transaction.items[i].total_price]))

C5_Witness_TwoItems ==
    /\ Len(transaction.items) = 2
    /\ transaction.items[1].unit_price = Dec(5, 1)
    /\ transaction.items[2].total_price = Dec(300, 2)
    /\ transaction.total_amount = Dec(350, 2)

RecordSettled(r) ==
    LET pay == ParseDecimal(r.payment_received)
        tot == ParseDecimal(r.total_amount)
        chg == ParseDecimal(r.change)
        prices == [i \in 1..Len(r.items) |-> ParseDecimal(r.items[i].total_price)]
    IN  /\ pay.ok /\ tot.ok /\ chg.ok
        /\ \A i \in 1..Len(r.items) : prices[i].ok
        /\ ~DecLt(pay.v, tot.v)
        /\ DecEq(chg.v, DecSub(pay.v, tot.v))
        /\ ~DecLt(chg.v, Dec(0, 0))
        /\ Len(r.items) >= 1
        /\ DecEq(tot.v, SumDec([i \in 1..Len(r.items) |-> prices[i].v]))

\* C6: every transaction in the ledger has payment_received >= total_amount,
\* change = payment_received - total_amount >= 0, at least one item and
\* total_amount equal to the sum of its items' total_price; the ledger is
\* written only by the payment step that returns the settled transaction.
C6_LedgerHoldsSettledSales ==
    /\ [](\A id \in DOMAIN ledger : RecordSettled(ledger[id]))
    /\ [][ledger' # ledger => (pc = "payment" /\ last'.ret = "Transaction")]_vars

C6_Witness_ChangeGiven ==
    \E id \in DOMAIN ledger :
        /\ Len(ledger[id].items) = 2
        /\ ledger[id].total_amount = <<"2", ".", "0", "0">>
        /\ ledger[id].payment_received = <<"3">>
        /\ ledger[id].change = <<"1", ".", "0", "0">>

\* C7: a line with quantity <= 0, an unknown product or too little stock is
\* rejected with transaction and catalog unchanged and the sale goes on; any
\* other line appends one item at the catalog price with
\* total_price = unit_price * quantity and takes quantity off the stock.
C7_LineAcceptedOrRejected ==
    [][\A pid \in ProductIds, qtext \in LineTexts :
         (pc = "items" /\ ParseInt(qtext).ok /\ create_bill_line(pid, qtext))
         => LET q == ParseInt(qtext).v
                stock == PyInt(inventory[pid].quantity)
                unit == ParseDecimal(inventory[pid].price).v
            IN  /\ pc' = "items"
                /\ IF q <= 0 \/ ~Has(inventory, pid) \/ (stock.ok /\ stock.v < q)
                   THEN inventory' = inventory /\ transaction' = transaction
                   ELSE /\ transaction'.items =
                             Append(transaction.items,
                                    TransactionItem(pid, q, unit, DecMul(unit, Dec(q, 0))))
                        /\ inventory'[pid].quantity = JInt(stock.v - q)]_vars

\* C8: create_bill with no accepted item returns None and never writes the ledger.
C8_EmptyBillNotRecorded ==
    [][pc = "items" =>
         /\ ledger' = ledger
         /\ (create_bill_done /\ transaction.items = <<>>)
               => (last'.ret = "None" /\ pc' = "idle")]_vars

C8_Witness_EmptyBillAfterSale ==
    /\ last.op = "create_bill" /\ last.ret = "None"
    /\ ledger # <<>>

\* C9: add_product with an id already present returns False and leaves the
\* catalog unchanged; with a new id it returns True, stores that product's
\* record under the id and leaves every other record unchanged.
C9_AddProduct ==
    [][\A p \in NewProducts :
         (last'.op = "add_product" /\ add_product(p))
         => IF Has(inventory, p.product_id)
            THEN last'.ret = "False" /\ inventory' = inventory
            ELSE /\ last'.ret = "True"
                 /\ DOMAIN inventory' = DOMAIN inventory \cup {p.product_id}
                 /\ OthersKept(p.product_id)
                 /\ LET r == inventory'[p.product_id]
                    IN  /\ r.product_id = p.product_id
                        /\ r.name = p.name
                        /\ r.category = p.category
                        /\ r.expiry_date = p.expiry_date
                        /\ r.quantity = JInt(p.quantity)
                        /\ ParseDecimal(r.price).ok
                        /\ ParseDecimal(r.price).v = p.price]_vars

C9_Witness_DuplicateRefused ==
    /\ last.op = "add_product" /\ last.ret = "False"
    /\ DOMAIN inventory = ProductIds
    /\ inventory["P1"].name = "Tea"

\* C10: update_prodcut on an absent id returns False and leaves the catalog
\* unchanged; otherwise it returns True, the named fields take the given
\* values, the other fields and all other products keep theirs.
C10_UpdateProduct ==
    [][\A pid \in ProductIds, u \in AllUpdates :
         (last'.op = "update_prodcut" /\ update_prodcut(pid, u))
         => IF ~Has(inventory, pid)
            THEN last'.ret = "False" /\ inventory' = inventory
            ELSE /\ last'.ret = "True"
                 /\ DOMAIN inventory' = DOMAIN inventory
                 /\ OthersKept(pid)
                 /\ \A f \in u.keys : inventory'[pid][f] = u.val[f]
                 /\ \A f \in (DOMAIN inventory[pid]) \ u.keys :
                        inventory'[pid][f] = inventory[pid][f]]_vars

C10_Witness_PartialUpdate ==
    /\ last.op = "update_prodcut" /\ last.ret = "True"
    /\ \E pid \in DOMAIN inventory :
          /\ inventory[pid].name = "Tea"
          /\ inventory[pid].category = "Food"
          /\ inventory[pid].quantity = JStr(<<"1">>)
          /\ inventory[pid].price = <<"1", ".", "5", "0">>

\* C11 as stated: register returns False and leaves the user store unchanged
\* when the username is "admin" or already exists; any other username gets
\* exactly one new salesman record.
C11_RegisterReservedExact ==
    [][\A u \in Usernames, pw \in Passwords :
         (last'.op = "register" /\ register(u, pw))
         => IF u = AdminName \/ Has(users, u)
            THEN last'.ret = "False" /\ users' = users
            ELSE /\ last'.ret = "True"
                 /\ DOMAIN users' = DOMAIN users \cup {u}
                 /\ users'[u] = UserRecord(pw, "salesman")
                 /\ \A o \in DOMAIN users : users'[o] = users[o]]_vars

\* C11 amended: register returns False and leaves the user store unchanged
\* when the username in lower case is "admin" or the username already exists;
\* any other username gets exactly one new salesman record.
C11_RegisterReservedAnyCase ==
    [][\A u \in Usernames, pw \in Passwords :
         (last'.op = "register" /\ register(u, pw))
         => IF Lower(u) = AdminName \/ Has(users, u)
            THEN last'.ret = "False" /\ users' = users
            ELSE /\ last'.ret = "True"
                 /\ DOMAIN users' = DOMAIN users \cup {u}
                 /\ users'[u] = UserRecord(pw, "salesman")
                 /\ \A o \in DOMAIN users : users'[o] = users[o]]_vars

C11_Witness_ReservedRefused ==
    /\ last.op = "register" /\ last.msg = "Admin user already exists"
    /\ ~Has(users, AdminName)
    /\ Cardinality(DOMAIN users) = 2

Admins == {u \in DOMAIN users : users[u].role = "Admin"}

RECURSIVE Cents(_, _)
Cents(led, ids) ==
    IF ids = {} THEN 0
    ELSE LET k == CHOOSE x \in ids : TRUE
         IN  Aligned(ParseDecimal(led[k].total_amount).v, 2) + Cents(led, ids \ {k})

RECURSIVE Units(_, _)
Units(led, ids) ==
    IF ids = {} THEN 0
    ELSE LET k == CHOOSE x \in ids : TRUE
             q == led[k].items
         IN  SumQuantity(q) + Units(led, ids \ {k})

OnDate(led, date) ==
    {k \in DOMAIN led :
        LET prefix == NatStr(date) \o <<"T">>
        IN  /\ Len(led[k].timestamp) > Len(prefix)
            /\ SubSeq(led[k].timestamp, 1, Len(prefix)) = prefix}

ReportIsExact(led, date, rep) ==
    LET ids == OnDate(led, date)
        total == ParseDecimal(rep.total_sales)
    IN  /\ DOMAIN rep.transactions = ids
        /\ \A k \in ids : rep.transactions[k] = led[k]
        /\ total.ok /\ Aligned(total.v, 2) = Cents(led, ids)
        /\ rep.total_transactions = Cardinality(ids)
        /\ rep.total_items_sold = Units(led, ids)

\* C13: get_daily_sales_report returns the exact sum of total_amount, the
\* count and the item quantity of exactly the transactions stored for the
\* date and leaves the ledger alone; for a date with no transactions it
\* returns total_sales "0.00", total_transactions 0 and no transactions.
C13_DailyReport ==
    [][\A date \in Dates :
         (last'.op = "get_daily_sales_report" /\ get_daily_sales_report(date))
         => /\ ledger' = ledger
            /\ ReportIsExact(ledger, date, report')
            /\ OnDate(ledger, date) = {}
                  => /\ report'.total_sales = <<"0", ".", "0", "0">>
                     /\ report'.total_transactions = 0
                     /\ report'.transactions = <<>>]_vars

\* The part of C13 that the code keeps: everything but the text of an empty total
C13_DailyReportButEmptyText ==
    [][\A date \in Dates :
         (last'.op = "get_daily_sales_report" /\ get_daily_sales_report(date))
         => /\ ledger' = ledger
            /\ ReportIsExact(ledger, date, report')
            /\ OnDate(ledger, date) = {}
                  => /\ report'.total_sales = <<"0">>
                     /\ report'.total_transactions = 0
                     /\ report'.transactions = <<>>]_vars

C14_InputErrorsRecoveredLocally ==
    /\ [][(running /\ ~running') => last'.msg = "Goodbye!"]_vars
    /\ [][(pc # "idle" /\ transaction.items # <<>> /\ pc' = "idle")
            => /\ Has(ledger', transaction.transaction_id)
               /\ ledger'[transaction.transaction_id].items
                     = [i \in 1..Len(transaction.items) |->
                            ItemDict(transaction.items[i])]]_vars

\* The first half of C14 alone: the process ends only on Exit
C14_OnlyExitEndsTheLoop == [][(running /\ ~running') => last'.msg = "Goodbye!"]_vars

\* The second half of C14 alone: a sale with accepted items is recorded
C14_SaleNeverAbandoned ==
    [][(pc = "payment" /\ pc' = "idle") => Has(ledger', transaction.transaction_id)]_vars

\* The changes of the executions that have returned True
Applied(i) ==
    IF conc.proc[i].pc = "done" /\ conc.proc[i].ret = "True"
    THEN conc.proc[i].quantity_change ELSE 0

\* C17: when the two adjust_stock executions do not interleave, the stored
\* quantity is the initial one plus the changes of the calls that returned
\* True; when they interleave, a state with both calls True and a different
\* stored quantity (a lost update) is reachable.
C17_SequentialAdjustmentsAddUp ==
    ~conc.overlap =>
        inventory["P1"].quantity = JInt(conc.initial + Applied(1) + Applied(2))

C17_Witness_LostUpdate ==
    /\ conc.overlap
    /\ \A i \in Procs : conc.proc[i].pc = "done" /\ conc.proc[i].ret = "True"
    /\ StockOf(inventory, "P1")
          # conc.initial + conc.proc[1].quantity_change + conc.proc[2].quantity_change

\* The quantity of a product in the items accepted so far
RECURSIVE Sold(_, _)
Sold(items, pid) ==
    IF items = <<>> THEN 0
    ELSE (IF items[1].product_id = pid THEN items[1].quantity ELSE 0)
         + Sold(Tail(items), pid)

\* C18: during create_bill, for each product, the catalog quantity at the
\* start of the sale is the current one plus the quantities of its accepted
\* items, which never exceed the stock at the start; and the adjust_stock
\* call after each accepted item returns True and takes the quantity off.
C18_StockConservedDuringSale ==
    /\ [](pc # "idle" =>
            /\ DOMAIN inventory = DOMAIN hist.start
            /\ \A p \in ProductIds : ~Has(inventory, p) => Sold(transaction.items, p) = 0
            /\ \A p \in DOMAIN inventory :
                  LET sold == Sold(transaction.items, p)
                  IN  IF sold = 0 THEN inventory[p] = hist.start[p]
                      ELSE /\ PyInt(hist.start[p].quantity).ok
                           /\ inventory[p].quantity
                                 = JInt(StockOf(hist.start, p) - sold)
                           /\ sold <= StockOf(hist.start, p))
    /\ [][\A p \in ProductIds, q \in LineTexts :
            (pc = "items" /\ create_bill_line(p, q)
                  /\ Len(transaction'.items) > Len(transaction.items))
            => /\ AdjustResult(inventory, p, -ParseInt(q).v).ret = "True"
               /\ StockOf(inventory', p) = StockOf(inventory, p) - ParseInt(q).v]_vars

C18_Witness_SameProductTwice ==
    /\ pc = "payment"
    /\ Len(transaction.items) = 2
    /\ \A i \in 1..2 : transaction.items[i].product_id = "P1"
    /\ StockOf(inventory, "P1") = 0
    /\ StockOf(hist.start, "P1") = 2

====
